---- MODULE Spec2Model ----
(***************************************************************************)
(* The Video model of server/models/video.js: the Sequelize hooks          *)
(* beforeValidate, beforeCreate and afterDestroy, the async/parallel task  *)
(* groups they launch, the file naming methods and the federation          *)
(* representations.                                                       *)
(*                                                                         *)
(* The model definition uses the classMethods / instanceMethods options    *)
(* (video.js:106-131), i.e. the Sequelize 3 API.  In Sequelize 3           *)
(*   - save() runs hookValidate (beforeValidate hook, then validation),    *)
(*     then the beforeCreate hook, then the INSERT;                        *)
(*   - instance.validate() runs the validators only, without hooks, and    *)
(*     resolves (never rejects) with the validation error or null;        *)
(*   - destroy() deletes the row and then runs the afterDestroy hook.      *)
(* async/parallel starts every task at once, calls the final callback     *)
(* with the first error as soon as it is seen, or without error when every *)
(* task has called back, and calls it only once.                           *)
(***************************************************************************)
EXTENDS Integers, Sequences, FiniteSets, TLC

\* Number of Video instances the pod builds (local ids 1..MaxVideos).
MaxVideos == 2

\* remoteId === null (video.js:307); local and remote ids are positive.
NULL == 0

\* '// 40 hexa length' (video.js:145)
HashLen == 40

VideoIds == 1..MaxVideos

\* Ids assigned by remote pods: UUIDs, disjoint from the local ids.
RemoteIds == {100 + MaxVideos}

\* constants.CONSTRAINTS_FIELDS.VIDEOS.EXTNAME, the values of the ENUM.
Extnames == {".mp4", ".ogv", ".webm"}

\* The extension of the files uploaded or announced in the lifecycle runs.
UploadExtnames == {".mp4"}

\* Names given at creation (the empty one is not valid) and by an update.
Names == {"Demo", ""}
NewNames == {"Edited"}

\* A hexadecimal string is the sequence of its digits, 0..15.
\* '0123456789abcdef0123456789abcdef01234567'
PlaceholderHash == [i \in 1..HashLen |-> (i - 1) % 16]

\* The hash a build has before beforeValidate ran (undefined).
NoHash == << >>

\* parseTorrent(torrent).infoHash: the SHA-1 of the torrent the encoder made
\* from the raw file of video id; one digest per file, 40 hex digits.
EncoderHash(id) == [i \in 1..HashLen |-> (3 * id + 5 * i) % 16]

\* Info hashes a remote pod may send: one well formed, one 39 digits long.
RemoteHashes == { [i \in 1..HashLen |-> (7 * i + 2) % 16],
                  [i \in 1..(HashLen - 1) |-> (7 * i + 2) % 16] }

\* customVideosValidators.isVideoInfoHashValid
isVideoInfoHashValid(value) ==
    /\ Len(value) = HashLen
    /\ \A i \in 1..Len(value) : value[i] \in 0..15

\* customVideosValidators.isVideoNameValid
isVideoNameValid(value) == value # ""

\* A Buffer or the content of a file is the sequence of its bytes, 0..255;
\* a string is the sequence of its UTF-16 code units.
\* The image ffmpeg extracts from an uploaded file (generateImage), and the
\* image data received in the lifecycle runs.
Screenshot == << 255, 216, 255 >>
ReceivedThumbnailData == { Screenshot }

\* What Sequelize and the associations give an instance besides the
\* attributes above: Author.name, the names of the Tags, the timestamps.
Details == [ description |-> "About", duration |-> 10, author |-> "root",
             tags |-> {"tag1", "tag2"}, createdAt |-> 1, updatedAt |-> 1 ]

CreateTaskNames == {"torrent", "thumbnail", "preview"}
DestroyTaskNames == {"removeThumbnail", "removeFile", "removeTorrent",
                     "removePreview", "notify"}

VARIABLES
    videos,        \* the Video instances: phase and attributes
    rows,          \* ids of the Video rows in the database
    createTasks,   \* status of the tasks of beforeCreate, per video
    createResult,  \* what beforeCreate passed to next: none, pending, ok, err
    destroyTasks,  \* status of the tasks of afterDestroy, per video
    destroyResult, \* what afterDestroy passed to next
    videosDir,     \* names of the files in STORAGE.VIDEOS_DIR
    torrentsDir,   \* files in STORAGE.TORRENTS_DIR: name and info hash inside
    thumbnailsDir, \* names of the files in STORAGE.THUMBNAILS_DIR
    previewsDir,   \* names of the files in STORAGE.PREVIEWS_DIR
    peerDirectory, \* payloads handed to friends.removeVideoToFriends
    lastNames,     \* result of the last call of the naming methods
    thumbnailBytes, \* content of the files in STORAGE.THUMBNAILS_DIR, by name
    remotePod,     \* the pod the representations are sent to: its mirrors
                   \* and the files of its thumbnails directory
    lastResult     \* the last call of a method or query, and what it gave

vars == << videos, rows, createTasks, createResult, destroyTasks,
           destroyResult, videosDir, torrentsDir, thumbnailsDir, previewsDir,
           peerDirectory, lastNames, thumbnailBytes, remotePod, lastResult >>

----------------------------------------------------------------------------
\* Instance methods

\* Variant: the test looks at the wrong attribute.
isOwnedById(video) == video.id = NULL

isOwned(video) == video.remoteId = NULL

getVideoFilename(video) ==
    IF isOwned(video) THEN << video.id, video.extname >>
    ELSE << video.remoteId, video.extname >>

\* Variant: the thumbnail named like the preview.
getThumbnailNameLikePreview(video) ==
    IF video.remoteId = NULL THEN << video.id, ".jpg" >>
    ELSE << video.remoteId, ".jpg" >>

getThumbnailName(video) == << video.id, ".jpg" >>

getPreviewName(video) ==
    IF isOwned(video) THEN << video.id, ".jpg" >>
    ELSE << video.remoteId, ".jpg" >>

getTorrentName(video) ==
    IF isOwned(video) THEN << video.id, ".torrent" >>
    ELSE << video.remoteId, ".torrent" >>

\* The argument magnetUtil.encode gets; the bases are those of this pod for
\* an owned video and those of the author's pod otherwise.
generateMagnetUri(video) ==
    [ xs |-> << IF isOwned(video) THEN "self" ELSE "pod", getTorrentName(video) >>,
      announce |-> IF isOwned(video) THEN "self" ELSE "pod",
      urlList |-> << << IF isOwned(video) THEN "self" ELSE "pod",
                        getVideoFilename(video) >> >>,
      infoHash |-> video.infoHash,
      name |-> video.name ]

\* Variant: the representation passes the remoteId attribute on.
toUpdateRemoteJSONOwnRemoteId(video) ==
    [ name |-> video.name,
      description |-> video.description,
      infoHash |-> video.infoHash,
      remoteId |-> video.remoteId,
      author |-> video.author,
      duration |-> video.duration,
      tags |-> video.tags,
      createdAt |-> video.createdAt,
      updatedAt |-> video.updatedAt,
      extname |-> video.extname ]

toUpdateRemoteJSON(video) ==
    [ name |-> video.name,
      description |-> video.description,
      infoHash |-> video.infoHash,
      remoteId |-> video.id,
      author |-> video.author,
      duration |-> video.duration,
      tags |-> video.tags,
      createdAt |-> video.createdAt,
      updatedAt |-> video.updatedAt,
      extname |-> video.extname ]

\* Variant: the default encoding; a byte that is not UTF-8 text becomes
\* U+FFFD.
toStringUtf8(buffer) ==
    [i \in 1..Len(buffer) |-> IF buffer[i] < 128 THEN buffer[i] ELSE 65533]

\* buffer.toString('binary'): latin1, byte b becomes the character U+00b.
toStringBinary(buffer) == [i \in 1..Len(buffer) |-> buffer[i] % 256]

\* Buffer.from(string, 'binary'): the low byte of every code unit.
bufferFromBinary(string) == [i \in 1..Len(string) |-> string[i] % 256]

\* The representation, or the read error when the thumbnail is missing;
\* thumbnails is the content of THUMBNAILS_DIR, by file name.
toAddRemoteJSON(video, thumbnails) ==
    IF getThumbnailName(video) \notin DOMAIN thumbnails
    THEN [ err |-> TRUE ]
    ELSE [ err |-> FALSE,
           name |-> video.name,
           description |-> video.description,
           infoHash |-> video.infoHash,
           remoteId |-> video.id,
           author |-> video.author,
           duration |-> video.duration,
           thumbnailData |->
               toStringBinary(thumbnails[getThumbnailName(video)]),
           tags |-> video.tags,
           createdAt |-> video.createdAt,
           updatedAt |-> video.updatedAt,
           extname |-> video.extname ]

\* Video.generateThumbnailFromData: fs.writeFile of
\* Buffer.from(thumbnailData, 'binary') at THUMBNAILS_DIR +
\* video.getThumbnailName(); the content of the directory after it.
generateThumbnailFromData(video, thumbnailData, thumbnails) ==
    (getThumbnailName(video) :> bufferFromBinary(thumbnailData))
        @@ thumbnails

----------------------------------------------------------------------------
\* Hooks and task groups

\* Variant: the hook does not look at the ownership.
beforeValidateEveryVideo(video) == [video EXCEPT !.infoHash = PlaceholderHash]

beforeValidate(video) ==
    IF isOwned(video) THEN [video EXCEPT !.infoHash = PlaceholderHash]
    ELSE video

\* Variant: the parsed hash is not put on the instance.
setInfoHashDropped(video, infoHash) == video

\* video.set('infoHash', parsedTorrent.infoHash)
setInfoHash(video, infoHash) == [video EXCEPT !.infoHash = infoHash]

\* What a task of beforeCreate is doing once parallel has started it.
createLaunchStatus(t) == IF t = "torrent" THEN "createTorrent" ELSE "running"

\* Variant: the notification task waits for the friends.
destroyLaunchStatusWaiting(t) == "running"

\* What a task of afterDestroy is doing once parallel has started it: a
\* removal waits for the callback of fs.unlink, the notification has called
\* friends.removeVideoToFriends(params) and then callback().
destroyLaunchStatus(t) == IF t = "notify" THEN "done" ELSE "running"

\* The validators of the attributes (video.js:25-83).
validate(video) ==
    /\ isVideoNameValid(video.name)
    /\ isVideoInfoHashValid(video.infoHash)
    /\ video.extname \in Extnames

\* Variant: the preview task is not pushed.
beforeCreateTasksNoPreview(video) ==
    IF video.remoteId = NULL THEN {"torrent", "thumbnail"} ELSE {}

\* The tasks beforeCreate pushes.
beforeCreateTasks(video) ==
    IF isOwned(video) THEN {"torrent", "thumbnail", "preview"} ELSE {}

\* Variant: the preview removal is not pushed.
afterDestroyTasksNoPreview(video) ==
    {"removeThumbnail"} \cup
    (IF video.remoteId = NULL
     THEN {"removeFile", "removeTorrent", "notify"}
     ELSE {})

\* Variant: every removal is pushed whatever the ownership.
afterDestroyTasksAll(video) ==
    {"removeThumbnail", "removeFile", "removeTorrent", "removePreview",
     "notify"}

\* The tasks afterDestroy pushes.
afterDestroyTasks(video) ==
    {"removeThumbnail"} \cup
    (IF isOwned(video)
     THEN {"removeFile", "removeTorrent", "removePreview", "notify"}
     ELSE {})

\* Variant: errors of the tasks are dropped, the join counts callbacks.
parallelSwallowErrors(result, err, statuses, tasks) ==
    IF result # "pending" THEN result
    ELSE IF \A t \in tasks : statuses[t] \in {"done", "failed"} THEN "ok"
    ELSE "pending"

\* Variant: the first task to succeed completes the group.
parallelFirstWins(result, err, statuses, tasks) ==
    IF result # "pending" THEN result
    ELSE IF err THEN "err"
    ELSE IF tasks = {} \/ \E t \in tasks : statuses[t] = "done" THEN "ok"
    ELSE "pending"

\* Variant: no guard on the final callback, which counts the callbacks.
parallelCountsCallbacks(result, err, statuses, tasks) ==
    IF err THEN "err"
    ELSE IF \A t \in tasks : statuses[t] \in {"done", "failed"} THEN "ok"
    ELSE result

\* async/parallel: the state of the final callback after a task called back
\* with err, the tasks being in the given statuses after that.
parallel(result, err, statuses, tasks) ==
    IF result # "pending" THEN result
    ELSE IF err THEN "err"
    ELSE IF \A t \in tasks : statuses[t] = "done" THEN "ok"
    ELSE "pending"

Unbuilt ==
    [ phase |-> "unbuilt", id |-> NULL, remoteId |-> NULL, extname |-> ".mp4",
      name |-> "", infoHash |-> NoHash ] @@ Details

NoNames == [ id |-> NULL ]

\* The directory of thumbnails with no file in it.
NoFiles == << >>

NoRemotePod == [ videos |-> {}, thumbnails |-> NoFiles ]

NoResult == [ op |-> "none" ]

Init ==
    /\ videos = [v \in VideoIds |-> Unbuilt]
    /\ rows = {}
    /\ createTasks = [v \in VideoIds |-> [t \in CreateTaskNames |-> "idle"]]
    /\ createResult = [v \in VideoIds |-> "none"]
    /\ destroyTasks = [v \in VideoIds |-> [t \in DestroyTaskNames |-> "idle"]]
    /\ destroyResult = [v \in VideoIds |-> "none"]
    /\ videosDir = {}
    /\ torrentsDir = {}
    /\ thumbnailsDir = {}
    /\ previewsDir = {}
    /\ peerDirectory = << >>
    /\ lastNames = NoNames
    /\ thumbnailBytes = NoFiles
    /\ remotePod = NoRemotePod
    /\ lastResult = NoResult

\* Ids are fresh: instance v is built once, after the instances before it.
CanBuild(v) ==
    /\ videos[v].phase = "unbuilt"
    /\ \A w \in VideoIds : w < v => videos[w].phase # "unbuilt"

\* Variant: beforeCreate runs before the validators.
SaveNewLaunchFirst(v, built) ==
    LET video == beforeValidate(built)
        tasks == beforeCreateTasks(video)
        result == IF tasks = {} THEN "ok" ELSE "pending"
    IN  /\ videos' = [videos EXCEPT ![v] =
              [video EXCEPT !.phase = IF ~ validate(video) THEN "rejected"
                                      ELSE IF result = "ok" THEN "persisted"
                                      ELSE "creating"]]
        /\ createTasks' = [createTasks EXCEPT ![v] =
              [t \in CreateTaskNames |->
                  IF t \notin tasks THEN "idle" ELSE createLaunchStatus(t)]]
        /\ createResult' = [createResult EXCEPT ![v] = result]
        /\ rows' = IF result = "ok" /\ validate(video) THEN rows \cup {v}
                   ELSE rows

\* save() of a new instance: hookValidate (beforeValidate, then the
\* validators; an error rejects the save before beforeCreate), then
\* beforeCreate: parallel(tasks, next) for an owned video, next() otherwise,
\* and the INSERT once the hook has succeeded.
SaveNew(v, built) ==
    LET video == beforeValidate(built)
        tasks == beforeCreateTasks(video)
        result == IF tasks = {} THEN "ok" ELSE "pending"
    IN  IF validate(video)
        THEN /\ videos' = [videos EXCEPT ![v] =
                   [video EXCEPT !.phase = IF result = "ok" THEN "persisted"
                                           ELSE "creating"]]
             /\ createTasks' = [createTasks EXCEPT ![v] =
                   [t \in CreateTaskNames |->
                       IF t \notin tasks THEN "idle"
                       ELSE createLaunchStatus(t)]]
             /\ createResult' = [createResult EXCEPT ![v] = result]
             /\ rows' = IF result = "ok" THEN rows \cup {v} ELSE rows
        ELSE /\ videos' = [videos EXCEPT ![v] =
                              [video EXCEPT !.phase = "rejected"]]
             /\ UNCHANGED << createTasks, createResult, rows >>

\* Video.build({ remoteId: null, ... }) on an uploaded file renamed to
\* getVideoFilename(), then save().
CreateOwned(v) ==
    \E ext \in UploadExtnames, nm \in Names :
        LET built == [ phase |-> "creating", id |-> v, remoteId |-> NULL,
                       extname |-> ext, name |-> nm, infoHash |-> NoHash ]
                     @@ Details
        IN  /\ CanBuild(v)
            /\ videosDir' = videosDir \cup {getVideoFilename(built)}
            /\ SaveNew(v, built)
            /\ UNCHANGED << destroyTasks, destroyResult, torrentsDir,
                            thumbnailsDir, previewsDir, peerDirectory,
                            lastNames, thumbnailBytes, remotePod, lastResult >>

\* Video.build of a representation a remote pod sent, then save().
CreateMirrored(v) ==
    \E rid \in RemoteIds, ext \in UploadExtnames, nm \in Names,
       h \in RemoteHashes :
        LET built == [ phase |-> "creating", id |-> v, remoteId |-> rid,
                       extname |-> ext, name |-> nm, infoHash |-> h ]
                     @@ Details
        IN  /\ CanBuild(v)
            /\ SaveNew(v, built)
            /\ UNCHANGED << destroyTasks, destroyResult, videosDir,
                            torrentsDir, thumbnailsDir, previewsDir,
                            peerDirectory, lastNames, thumbnailBytes,
                            remotePod, lastResult >>

\* A task of beforeCreate calls back: parallel decides, and on success of
\* the hook save() goes on to the INSERT; on an error save() is rejected.
CreateTaskCallback(v, video, statuses, err) ==
    LET result == parallel(createResult[v], err, statuses,
                           beforeCreateTasks(video))
        phase == IF createResult[v] # "pending" THEN video.phase
                 ELSE IF result = "ok" THEN "persisted"
                 ELSE IF result = "err" THEN "failed"
                 ELSE video.phase
    IN  /\ createTasks' = [createTasks EXCEPT ![v] = statuses]
        /\ createResult' = [createResult EXCEPT ![v] = result]
        /\ videos' = [videos EXCEPT ![v] = [video EXCEPT !.phase = phase]]
        /\ rows' = IF createResult[v] = "pending" /\ result = "ok"
                   THEN rows \cup {v} ELSE rows

\* createTorrent(videoPath, options, function (err, torrent) ...
CreateTorrentCallback(v) ==
    /\ createTasks[v]["torrent"] = "createTorrent"
    /\ \E err \in BOOLEAN :
         CreateTaskCallback(v, videos[v],
             [createTasks[v] EXCEPT !["torrent"] =
                 IF err THEN "failed" ELSE "writeFile"], err)
    /\ UNCHANGED << destroyTasks, destroyResult, videosDir, torrentsDir,
                    thumbnailsDir, previewsDir, peerDirectory, lastNames,
                    thumbnailBytes, remotePod, lastResult >>

\* fs.writeFile(TORRENTS_DIR + video.getTorrentName(), torrent, function (err)
\* ...: parseTorrent, video.set('infoHash', ...), video.validate()
WriteTorrentCallback(v) ==
    /\ createTasks[v]["torrent"] = "writeFile"
    /\ \E err \in BOOLEAN :
         IF err
         THEN /\ CreateTaskCallback(v, videos[v],
                     [createTasks[v] EXCEPT !["torrent"] = "failed"], TRUE)
              /\ UNCHANGED torrentsDir
         ELSE /\ torrentsDir' = torrentsDir \cup
                     { [ name |-> getTorrentName(videos[v]),
                         infoHash |-> EncoderHash(v) ] }
              /\ CreateTaskCallback(v,
                     setInfoHash(videos[v], EncoderHash(v)),
                     [createTasks[v] EXCEPT !["torrent"] = "validate"], FALSE)
    /\ UNCHANGED << destroyTasks, destroyResult, videosDir, thumbnailsDir,
                    previewsDir, peerDirectory, lastNames, thumbnailBytes,
                    remotePod, lastResult >>

\* video.validate().asCallback(callback): the promise resolves with the
\* validation error or null, so callback gets no error.
ValidateCallback(v) ==
    /\ createTasks[v]["torrent"] = "validate"
    /\ CreateTaskCallback(v, videos[v],
           [createTasks[v] EXCEPT !["torrent"] = "done"], FALSE)
    /\ UNCHANGED << destroyTasks, destroyResult, videosDir, torrentsDir,
                    thumbnailsDir, previewsDir, peerDirectory, lastNames,
                    thumbnailBytes, remotePod, lastResult >>

\* createThumbnail -> generateImage: ffmpeg emits 'error', or 'end' once the
\* image is written in THUMBNAILS_DIR.
ThumbnailCallback(v) ==
    /\ createTasks[v]["thumbnail"] = "running"
    /\ \E err \in BOOLEAN :
         /\ CreateTaskCallback(v, videos[v],
                [createTasks[v] EXCEPT !["thumbnail"] =
                    IF err THEN "failed" ELSE "done"], err)
         /\ thumbnailsDir' = IF err THEN thumbnailsDir
                             ELSE thumbnailsDir \cup {getThumbnailName(videos[v])}
         /\ thumbnailBytes' =
                IF err THEN thumbnailBytes
                ELSE (getThumbnailName(videos[v]) :> Screenshot)
                         @@ thumbnailBytes
    /\ UNCHANGED << destroyTasks, destroyResult, videosDir, torrentsDir,
                    previewsDir, peerDirectory, lastNames, remotePod,
                    lastResult >>

\* createPreview -> generateImage, in PREVIEWS_DIR.
PreviewCallback(v) ==
    /\ createTasks[v]["preview"] = "running"
    /\ \E err \in BOOLEAN :
         /\ CreateTaskCallback(v, videos[v],
                [createTasks[v] EXCEPT !["preview"] =
                    IF err THEN "failed" ELSE "done"], err)
         /\ previewsDir' = IF err THEN previewsDir
                           ELSE previewsDir \cup {getPreviewName(videos[v])}
    /\ UNCHANGED << destroyTasks, destroyResult, videosDir, torrentsDir,
                    thumbnailsDir, peerDirectory, lastNames, thumbnailBytes,
                    remotePod, lastResult >>

\* Video.generateThumbnailFromData(video, thumbnailData, callback), called
\* for a video received from a remote pod.
GenerateThumbnailFromData(v) ==
    /\ videos[v].phase = "persisted"
    /\ ~ isOwned(videos[v])
    /\ \E err \in BOOLEAN, data \in ReceivedThumbnailData :
         /\ thumbnailsDir' =
                IF err THEN thumbnailsDir
                ELSE thumbnailsDir \cup {getThumbnailName(videos[v])}
         /\ thumbnailBytes' =
                IF err THEN thumbnailBytes
                ELSE generateThumbnailFromData(videos[v],
                         toStringBinary(data), thumbnailBytes)
    /\ UNCHANGED << videos, rows, createTasks, createResult, destroyTasks,
                    destroyResult, videosDir, torrentsDir, previewsDir,
                    peerDirectory, lastNames, remotePod, lastResult >>

\* A change of the name of a stored video, then save(): hookValidate runs
\* beforeValidate and the validators, then the UPDATE.
UpdateVideo(v) ==
    /\ videos[v].phase = "persisted"
    /\ \E nm \in {n \in NewNames : isVideoNameValid(n)} :
         videos' = [videos EXCEPT ![v] =
                       beforeValidate([videos[v] EXCEPT !.name = nm])]
    /\ UNCHANGED << rows, createTasks, createResult, destroyTasks,
                    destroyResult, videosDir, torrentsDir, thumbnailsDir,
                    previewsDir, peerDirectory, lastNames, thumbnailBytes,
                    remotePod, lastResult >>

\* video.destroy(): DELETE of the row, then afterDestroy.  parallel starts
\* every task: the four fs.unlink are under way, and the notification task
\* has handed its payload to friends.removeVideoToFriends and called back.
Destroy(v) ==
    LET video == videos[v]
        tasks == afterDestroyTasks(video)
        statuses == [t \in DestroyTaskNames |->
                        IF t \notin tasks THEN "idle"
                        ELSE destroyLaunchStatus(t)]
    IN  /\ video.phase = "persisted"
        /\ rows' = rows \ {v}
        /\ videos' = [videos EXCEPT ![v].phase = "destroyed"]
        /\ destroyTasks' = [destroyTasks EXCEPT ![v] = statuses]
        /\ destroyResult' = [destroyResult EXCEPT ![v] =
               parallel("pending", FALSE, statuses, tasks)]
        /\ peerDirectory' =
               IF "notify" \in tasks
               THEN Append(peerDirectory,
                        [ name |-> video.name, remoteId |-> video.id,
                          status |-> "pending" ])
               ELSE peerDirectory
        /\ UNCHANGED << createTasks, createResult, videosDir, torrentsDir,
                        thumbnailsDir, previewsDir, lastNames,
                        thumbnailBytes, remotePod, lastResult >>

\* The file a removal task unlinks: directory and name.
removeTarget(video, t) ==
    IF t = "removeThumbnail" THEN << "thumbnails", getThumbnailName(video) >>
    ELSE IF t = "removeFile" THEN << "videos", getVideoFilename(video) >>
    ELSE IF t = "removeTorrent" THEN << "torrents", getTorrentName(video) >>
    ELSE << "previews", getPreviewName(video) >>

FilesIn(dir) ==
    IF dir = "thumbnails" THEN thumbnailsDir
    ELSE IF dir = "videos" THEN videosDir
    ELSE IF dir = "torrents" THEN {f.name : f \in torrentsDir}
    ELSE previewsDir

\* The callback of fs.unlink: an absent file is an error (ENOENT), a present
\* one is removed or the removal fails and leaves it.
UnlinkCallback(v, t) ==
    LET target == removeTarget(videos[v], t)
        dir == target[1]
        file == target[2]
    IN  /\ t # "notify"
        /\ destroyTasks[v][t] = "running"
        /\ \E err \in BOOLEAN :
             LET statuses == [destroyTasks[v] EXCEPT ![t] =
                                 IF err THEN "failed" ELSE "done"]
             IN  /\ file \notin FilesIn(dir) => err
                 /\ destroyTasks' = [destroyTasks EXCEPT ![v] = statuses]
                 /\ destroyResult' = [destroyResult EXCEPT ![v] =
                        parallel(destroyResult[v], err, statuses,
                                 afterDestroyTasks(videos[v]))]
                 /\ thumbnailsDir' = IF ~ err /\ dir = "thumbnails"
                                     THEN thumbnailsDir \ {file}
                                     ELSE thumbnailsDir
                 /\ thumbnailBytes' =
                        IF ~ err /\ dir = "thumbnails"
                        THEN [n \in DOMAIN thumbnailBytes \ {file} |->
                                 thumbnailBytes[n]]
                        ELSE thumbnailBytes
                 /\ videosDir' = IF ~ err /\ dir = "videos"
                                 THEN videosDir \ {file} ELSE videosDir
                 /\ torrentsDir' = IF ~ err /\ dir = "torrents"
                                   THEN {f \in torrentsDir : f.name # file}
                                   ELSE torrentsDir
                 /\ previewsDir' = IF ~ err /\ dir = "previews"
                                   THEN previewsDir \ {file} ELSE previewsDir
        /\ UNCHANGED << videos, rows, createTasks, createResult,
                        peerDirectory, lastNames, remotePod, lastResult >>

\* The peer directory later delivers a payload to the friends, or fails to.
Deliver(i) ==
    /\ peerDirectory[i].status = "pending"
    /\ \E outcome \in {"delivered", "failed"} :
         peerDirectory' = [peerDirectory EXCEPT ![i].status = outcome]
    /\ UNCHANGED << videos, rows, createTasks, createResult, destroyTasks,
                    destroyResult, videosDir, torrentsDir, thumbnailsDir,
                    previewsDir, lastNames, thumbnailBytes, remotePod,
                    lastResult >>

\* A caller asks an instance for its four names.
CallNames(v) ==
    /\ videos[v].phase # "unbuilt"
    /\ lastNames' = [ id |-> v,
                      video |-> getVideoFilename(videos[v]),
                      thumbnail |-> getThumbnailName(videos[v]),
                      preview |-> getPreviewName(videos[v]),
                      torrent |-> getTorrentName(videos[v]) ]
    /\ UNCHANGED << videos, rows, createTasks, createResult, destroyTasks,
                    destroyResult, videosDir, torrentsDir, thumbnailsDir,
                    previewsDir, peerDirectory, thumbnailBytes, remotePod,
                    lastResult >>

Next ==
    \/ \E v \in VideoIds :
        \/ CreateOwned(v)
        \/ CreateMirrored(v)
        \/ CreateTorrentCallback(v)
        \/ WriteTorrentCallback(v)
        \/ ValidateCallback(v)
        \/ ThumbnailCallback(v)
        \/ PreviewCallback(v)
        \/ GenerateThumbnailFromData(v)
        \/ UpdateVideo(v)
        \/ Destroy(v)
        \/ \E t \in DestroyTaskNames : UnlinkCallback(v, t)
    \/ \E i \in 1..Len(peerDirectory) : Deliver(i)

Spec == Init /\ [][Next]_vars

----------------------------------------------------------------------------
\* The naming methods on their own: stored instances of every ownership and
\* extension, asked for their names before and after updates.

InitNaming ==
    /\ videos \in [VideoIds -> [ phase : {"persisted"}, id : VideoIds,
                                 remoteId : {NULL} \cup RemoteIds,
                                 extname : Extnames, name : {"Demo"},
                                 infoHash : {EncoderHash(w) : w \in VideoIds},
                                 description : {Details.description},
                                 duration : {Details.duration},
                                 author : {Details.author},
                                 tags : {Details.tags},
                                 createdAt : {Details.createdAt},
                                 updatedAt : {Details.updatedAt} ]]
    /\ \A v \in VideoIds : /\ videos[v].id = v
                            /\ videos[v].infoHash = EncoderHash(v)
    /\ rows = VideoIds
    /\ createTasks = [v \in VideoIds |-> [t \in CreateTaskNames |-> "idle"]]
    /\ createResult = [v \in VideoIds |-> "ok"]
    /\ destroyTasks = [v \in VideoIds |-> [t \in DestroyTaskNames |-> "idle"]]
    /\ destroyResult = [v \in VideoIds |-> "none"]
    /\ videosDir = {}
    /\ torrentsDir = {}
    /\ thumbnailsDir = {}
    /\ previewsDir = {}
    /\ peerDirectory = << >>
    /\ lastNames = NoNames
    /\ thumbnailBytes = NoFiles
    /\ remotePod = NoRemotePod
    /\ lastResult = NoResult

NextNaming ==
    \E v \in VideoIds :
        \/ CallNames(v)
        \/ UpdateVideo(v)

SpecNaming == InitNaming /\ [][NextNaming]_vars

----------------------------------------------------------------------------
\* Properties

Built(v) == videos[v].phase # "unbuilt"

Owned(v) == Built(v) /\ videos[v].remoteId = NULL

Mirrored(v) == Built(v) /\ videos[v].remoteId # NULL

TorrentFiles == {f.name : f \in torrentsDir}

\* /^[0-9a-f]{40}$/
MatchesHex40(h) == Len(h) = 40 /\ \A i \in 1..Len(h) : h[i] \in 0..15

\* The three artifacts of the create pipeline of owned video v.
ArtifactsPresent(v) ==
    /\ << v, ".torrent" >> \in TorrentFiles
    /\ << v, ".jpg" >> \in thumbnailsDir
    /\ << v, ".jpg" >> \in previewsDir

\* The removals of afterDestroy.
Removals == {"removeThumbnail", "removeFile", "removeTorrent", "removePreview"}

PayloadsOf(v) == {i \in 1..Len(peerDirectory) : peerDirectory[i].remoteId = v}

\* C1: creation of an owned video is all-or-nothing.  When beforeCreate
\* reports its result, either it is a success, the row is persisted, the
\* three artifacts exist and the encoder's hash is on the record, or it is an
\* error and no row is persisted; a row of an owned video exists only after a
\* success and never after an error.
C1_AllOrNothing ==
    /\ [](\A v \in VideoIds :
            /\ createResult[v] = "err" => v \notin rows
            /\ (Owned(v) /\ v \in rows) => createResult[v] = "ok")
    /\ [][\A v \in VideoIds :
            (Owned(v)' /\ createResult[v] = "pending"
                       /\ createResult'[v] # "pending") =>
               \/ /\ createResult'[v] = "ok"
                  /\ v \in rows'
                  /\ ArtifactsPresent(v)'
                  /\ videos'[v].infoHash = EncoderHash(v)
               \/ /\ createResult'[v] = "err"
                  /\ v \notin rows']_vars

\* C1 witness: one owned creation succeeded and another one failed.
C1_Witness ==
    \E v, w \in VideoIds :
        /\ Owned(v) /\ createResult[v] = "ok" /\ v \in rows
        /\ Owned(w) /\ createResult[w] = "err"

\* C2: at the step where the creation hook of an owned video reports
\* success, the torrent task has finished and the record's infoHash is the
\* hash inside the torrent file written under the video's torrent name, has
\* 40 hexadecimal digits and is not the placeholder.
C2_HashCommittedAtSuccess ==
    [][\A v \in VideoIds :
          (Owned(v)' /\ createResult[v] # "ok" /\ createResult'[v] = "ok") =>
             /\ createTasks'[v]["torrent"] = "done"
             /\ [ name |-> << v, ".torrent" >>,
                  infoHash |-> videos'[v].infoHash ] \in torrentsDir'
             /\ MatchesHex40(videos'[v].infoHash)
             /\ videos'[v].infoHash # PlaceholderHash]_vars

\* C2 witness: an owned video whose creation succeeded, not yet updated.
C2_Witness ==
    \E v \in VideoIds :
        /\ Owned(v) /\ createResult[v] = "ok"
        /\ videos[v].phase = "persisted"
        /\ videos[v].infoHash = EncoderHash(v)

\* C3: a stored owned video never carries the placeholder: what magnet
\* generation and both federation representations read is the encoder's hash.
C3_NeverPlaceholderAfterCreation ==
    \A v \in VideoIds :
        (Owned(v) /\ videos[v].phase = "persisted") =>
            /\ generateMagnetUri(videos[v]).infoHash = EncoderHash(v)
            /\ toUpdateRemoteJSON(videos[v]).infoHash = EncoderHash(v)
            /\ toAddRemoteJSON(videos[v], thumbnailBytes).infoHash
                   = EncoderHash(v)
            /\ videos[v].infoHash # PlaceholderHash

\* C4: destroying an owned video launches the four removals and hands the
\* peer directory exactly one payload, {name: video.name, remoteId:
\* video.id}; when the hook completes without error the four files are gone.
C4_OwnedDestroy ==
    \A v \in VideoIds :
        (Owned(v) /\ videos[v].phase = "destroyed") =>
            /\ \A t \in Removals : destroyTasks[v][t] # "idle"
            /\ Cardinality(PayloadsOf(v)) = 1
            /\ \A i \in PayloadsOf(v) :
                   peerDirectory[i].name = videos[v].name
            /\ destroyResult[v] = "ok" =>
                   /\ << v, ".jpg" >> \notin thumbnailsDir
                   /\ << v, videos[v].extname >> \notin videosDir
                   /\ << v, ".torrent" >> \notin TorrentFiles
                   /\ << v, ".jpg" >> \notin previewsDir

\* C4 witness: the destroy hook of an owned video completed without error.
C4_Witness ==
    \E v \in VideoIds :
        Owned(v) /\ videos[v].phase = "destroyed" /\ destroyResult[v] = "ok"

\* C5: destroying a mirrored video launches the thumbnail removal only, hands
\* nothing to the peer directory, and its steps change no file but the
\* thumbnail named by the local id.
C5_MirroredDestroy ==
    /\ [](\A v \in VideoIds :
            (Mirrored(v) /\ videos[v].phase = "destroyed") =>
                /\ destroyTasks[v]["removeThumbnail"] # "idle"
                /\ \A t \in DestroyTaskNames \ {"removeThumbnail"} :
                       destroyTasks[v][t] = "idle"
                /\ PayloadsOf(v) = {})
    /\ [][\A v \in VideoIds :
            (Mirrored(v) /\ (destroyTasks'[v] # destroyTasks[v]
                             \/ destroyResult'[v] # destroyResult[v])) =>
                /\ videosDir' = videosDir
                /\ torrentsDir' = torrentsDir
                /\ previewsDir' = previewsDir
                /\ peerDirectory' = peerDirectory
                /\ thumbnailsDir' \subseteq thumbnailsDir
                /\ thumbnailsDir \ thumbnailsDir' \subseteq {<< v, ".jpg" >>}]_vars

\* C5 witness: a mirrored video was destroyed and its thumbnail removed while
\* files of another video are on storage.
C5_Witness ==
    \E v \in VideoIds :
        /\ Mirrored(v) /\ videos[v].phase = "destroyed"
        /\ destroyResult[v] = "ok"
        /\ videosDir # {} /\ torrentsDir # {} /\ previewsDir # {}

\* The removals afterDestroy has to launch for video v.
ApplicableRemovals(v) == IF Owned(v) THEN Removals ELSE {"removeThumbnail"}

\* C6: during destroy every applicable removal is attempted whatever the
\* others do, a removal that succeeded stays done (its file stays absent), a
\* failed removal makes the hook report an error, and the row is removed.
C6_DestroyIsolation ==
    \A v \in VideoIds :
        videos[v].phase = "destroyed" =>
            /\ \A t \in ApplicableRemovals(v) : destroyTasks[v][t] # "idle"
            /\ v \notin rows
            /\ (\E t \in Removals : destroyTasks[v][t] = "failed")
                   => destroyResult[v] = "err"
            /\ \A t \in Removals :
                   destroyTasks[v][t] = "done" =>
                       removeTarget(videos[v], t)[2]
                           \notin FilesIn(removeTarget(videos[v], t)[1])

\* C6 witness: the thumbnail removal of an owned video failed, the three
\* other removals were done all the same, and the error was reported.
C6_Witness ==
    \E v \in VideoIds :
        /\ Owned(v) /\ videos[v].phase = "destroyed"
        /\ destroyTasks[v]["removeThumbnail"] = "failed"
        /\ \A t \in Removals \ {"removeThumbnail"} : destroyTasks[v][t] = "done"
        /\ destroyResult[v] = "err"

\* C7: the notification task of destroy has completed as soon as the hook
\* has launched it, whatever the delivery does; the result of the hook is
\* decided by the removals alone, and a delivery or a failed delivery changes
\* neither the tasks nor the result.
C7_FireAndForget ==
    /\ [](\A v \in VideoIds :
            (Owned(v) /\ videos[v].phase = "destroyed") =>
                /\ destroyTasks[v]["notify"] = "done"
                /\ destroyResult[v] = "err"
                       <=> \E t \in Removals : destroyTasks[v][t] = "failed"
                /\ destroyResult[v] = "ok"
                       <=> \A t \in Removals : destroyTasks[v][t] = "done")
    /\ [][(Len(peerDirectory') = Len(peerDirectory)
           /\ peerDirectory' # peerDirectory) =>
              /\ destroyResult' = destroyResult
              /\ destroyTasks' = destroyTasks]_vars

\* C7 witness: the hook completed without error, once with the payload not
\* delivered yet and once with its delivery failed.
C7_Witness ==
    \E v, w \in VideoIds :
        /\ destroyResult[v] = "ok" /\ destroyResult[w] = "ok"
        /\ \E i \in PayloadsOf(v) : peerDirectory[i].status = "pending"
        /\ \E i \in PayloadsOf(w) : peerDirectory[i].status = "failed"

\* The four files of owned video v.
RawFilePresent(v) == << v, videos[v].extname >> \in videosDir
TorrentPresent(v) == << v, ".torrent" >> \in TorrentFiles
ThumbnailPresent(v) == << v, ".jpg" >> \in thumbnailsDir
PreviewPresent(v) == << v, ".jpg" >> \in previewsDir

\* A mirrored video holds no raw media file, torrent file or preview, under
\* its local id or under its remote id.
MirrorHoldsThumbnailOnly(v) ==
    \A id \in {v, videos[v].remoteId} :
        /\ \A ext \in Extnames : << id, ext >> \notin videosDir
        /\ << id, ".torrent" >> \notin TorrentFiles
        /\ << id, ".jpg" >> \notin previewsDir

\* C8 as stated: the four files of an owned video exist if and only if its
\* row exists; a mirrored video holds the thumbnail only.
C8_FilesIffRow ==
    \A v \in VideoIds :
        /\ Owned(v) =>
              /\ RawFilePresent(v) <=> v \in rows
              /\ TorrentPresent(v) <=> v \in rows
              /\ ThumbnailPresent(v) <=> v \in rows
              /\ PreviewPresent(v) <=> v \in rows
        /\ Mirrored(v) => MirrorHoldsThumbnailOnly(v)

\* C8 amended: whenever the row of an owned video exists its four files
\* exist; a mirrored video holds the thumbnail only.
C8_RowImpliesFiles ==
    \A v \in VideoIds :
        /\ (Owned(v) /\ v \in rows) =>
              /\ RawFilePresent(v)
              /\ TorrentPresent(v)
              /\ ThumbnailPresent(v)
              /\ PreviewPresent(v)
        /\ Mirrored(v) => MirrorHoldsThumbnailOnly(v)

\* C8 witness: a stored owned video with its files next to a stored mirrored
\* video with its thumbnail.
C8_Witness ==
    \E v, w \in VideoIds :
        /\ Owned(v) /\ v \in rows /\ RawFilePresent(v) /\ TorrentPresent(v)
        /\ Mirrored(w) /\ w \in rows /\ << w, ".jpg" >> \in thumbnailsDir

\* The tasks only an owned video gets.
OwnedOnlyRemovals == DestroyTaskNames \ {"removeThumbnail"}

\* C9: a built video is owned exactly when it has no remote id, and has a
\* remote id otherwise; beforeCreate launched its tasks, and afterDestroy its
\* owned-only tasks, exactly for the videos without a remote id.
C9_OwnedIffNoRemoteId ==
    \A v \in VideoIds :
        Built(v) =>
            /\ isOwned(videos[v]) <=> videos[v].remoteId = NULL
            /\ isOwned(videos[v]) <=> videos[v].remoteId \notin RemoteIds
            /\ createResult[v] # "none" =>
                  /\ (\E t \in CreateTaskNames : createTasks[v][t] # "idle")
                         <=> videos[v].remoteId = NULL
                  /\ (\A t \in CreateTaskNames : createTasks[v][t] # "idle")
                         <=> videos[v].remoteId = NULL
            /\ videos[v].phase = "destroyed" =>
                  /\ (\E t \in OwnedOnlyRemovals : destroyTasks[v][t] # "idle")
                         <=> videos[v].remoteId = NULL
                  /\ (\A t \in OwnedOnlyRemovals : destroyTasks[v][t] # "idle")
                         <=> videos[v].remoteId = NULL

\* C9 witness: an owned and a mirrored video went through both hooks, the
\* owned one after an update.
C9_Witness ==
    \E v, w \in VideoIds :
        /\ Owned(v) /\ videos[v].phase = "destroyed"
        /\ videos[v].name = "Edited"
        /\ Mirrored(w) /\ videos[w].phase = "destroyed"

\* C10: the names a call returned are those the four rules give for the
\* instance as it is now (so a second call returns the same): video file,
\* preview and torrent from id when owned and from remoteId when mirrored,
\* thumbnail from id always; and a call changes nothing else.
C10_Naming ==
    /\ [](lastNames.id # NULL =>
            LET video == videos[lastNames.id]
                base == IF video.remoteId = NULL THEN lastNames.id
                        ELSE video.remoteId
            IN  /\ lastNames.video = << base, video.extname >>
                /\ lastNames.preview = << base, ".jpg" >>
                /\ lastNames.torrent = << base, ".torrent" >>
                /\ lastNames.thumbnail = << lastNames.id, ".jpg" >>
                /\ lastNames.video = getVideoFilename(video)
                /\ lastNames.thumbnail = getThumbnailName(video)
                /\ lastNames.preview = getPreviewName(video)
                /\ lastNames.torrent = getTorrentName(video))
    /\ [][lastNames' # lastNames =>
            UNCHANGED << videos, rows, createTasks, createResult,
                         destroyTasks, destroyResult, videosDir, torrentsDir,
                         thumbnailsDir, previewsDir, peerDirectory,
                         thumbnailBytes, remotePod, lastResult >>]_vars

\* C10 witness: the names of a mirrored video were asked, and the video was
\* updated since.
C10_Witness ==
    /\ lastNames.id # NULL
    /\ videos[lastNames.id].remoteId # NULL
    /\ videos[lastNames.id].name = "Edited"
    /\ lastNames.thumbnail # lastNames.preview

----------------------------------------------------------------------------
\* Magnet generation on its own: instances as a caller can hold them, stored
\* ones and ones whose save() was rejected by the validators.

\* magnetUtil.encode(magnetHash): the parameters of the magnet URI, in order.
\* xt is written when infoHash is not empty; nothing is checked or thrown.
magnetEncode(magnetHash) ==
    (IF magnetHash.infoHash # NoHash
     THEN << << "xt", "urn:btih:", magnetHash.infoHash >> >> ELSE << >>)
    \o << << "dn", magnetHash.name >>,
          << "tr", magnetHash.announce >>,
          << "xs", magnetHash.xs >>,
          << "ws", magnetHash.urlList[1] >> >>

\* What save() left of a build: rejected by the validators, or stored, an
\* owned one with the hash the torrent task put on it.
Saved(built) ==
    LET video == beforeValidate(built)
    IN  IF ~ validate(video) THEN [video EXCEPT !.phase = "rejected"]
        ELSE IF isOwned(video)
        THEN [setInfoHash(video, EncoderHash(video.id))
                 EXCEPT !.phase = "persisted"]
        ELSE [video EXCEPT !.phase = "persisted"]

InitMagnet ==
    /\ videos \in [VideoIds ->
          { Saved([ phase |-> "creating", id |-> id, remoteId |-> rid,
                    extname |-> ext, name |-> "Demo", infoHash |-> h ]
                  @@ Details) :
              id \in VideoIds, rid \in {NULL} \cup RemoteIds,
              ext \in Extnames, h \in RemoteHashes }]
    /\ \A v \in VideoIds :
          /\ videos[v].id = v
          /\ isOwned(videos[v]) => videos[v].extname \in UploadExtnames
    /\ rows = {v \in VideoIds : videos[v].phase = "persisted"}
    /\ createTasks = [v \in VideoIds |-> [t \in CreateTaskNames |-> "idle"]]
    /\ createResult = [v \in VideoIds |-> "ok"]
    /\ destroyTasks = [v \in VideoIds |-> [t \in DestroyTaskNames |-> "idle"]]
    /\ destroyResult = [v \in VideoIds |-> "none"]
    /\ videosDir = {}
    /\ torrentsDir = {}
    /\ thumbnailsDir = {}
    /\ previewsDir = {}
    /\ peerDirectory = << >>
    /\ lastNames = NoNames
    /\ thumbnailBytes = NoFiles
    /\ remotePod = NoRemotePod
    /\ lastResult = NoResult

\* A caller asks instance v for its magnet URI.
GenerateMagnetUri(v) ==
    /\ lastResult' = [ op |-> "generateMagnetUri",
                       video |-> videos[v],
                       threw |-> FALSE,
                       returned |-> magnetEncode(generateMagnetUri(videos[v])) ]
    /\ UNCHANGED << videos, rows, createTasks, createResult, destroyTasks,
                    destroyResult, videosDir, torrentsDir, thumbnailsDir,
                    previewsDir, peerDirectory, lastNames, thumbnailBytes,
                    remotePod >>

NextMagnet ==
    \E v \in VideoIds :
        \/ GenerateMagnetUri(v)
        \/ UpdateVideo(v)

SpecMagnet == InitMagnet /\ [][NextMagnet]_vars

\* C11: magnet generation fails whenever the infoHash of the video is not
\* 40 hexadecimal digits, and returns a URI only for a well-formed one.
C11_MagnetNeedsWellFormedHash ==
    lastResult.op = "generateMagnetUri" =>
        (lastResult.threw <=> ~ MatchesHex40(lastResult.video.infoHash))

C13_MirroredUntouched ==
    /\ [](\A v \in VideoIds :
            Mirrored(v) =>
                /\ \A t \in CreateTaskNames : createTasks[v][t] = "idle"
                /\ createResult[v] \in {"none", "ok"}
                /\ videos[v].infoHash \in RemoteHashes
                /\ getVideoFilename(videos[v]) \notin videosDir
                /\ getTorrentName(videos[v]) \notin TorrentFiles
                /\ getPreviewName(videos[v]) \notin previewsDir)
    /\ [][\A v \in VideoIds :
            /\ (Mirrored(v) /\ Mirrored(v)') =>
                   videos'[v].infoHash = videos[v].infoHash
            /\ (Mirrored(v)' /\ videos'[v] # videos[v]) =>
                   /\ videosDir' = videosDir
                   /\ torrentsDir' = torrentsDir
                   /\ thumbnailsDir' = thumbnailsDir
                   /\ previewsDir' = previewsDir]_vars

\* C13 witness: a stored mirrored video that has been updated.
C13_Witness ==
    \E v \in VideoIds :
        /\ Mirrored(v) /\ videos[v].phase = "persisted"
        /\ videos[v].name \in NewNames
        /\ videos[v].infoHash \in RemoteHashes
        /\ videos[v].infoHash # PlaceholderHash

----------------------------------------------------------------------------
\* Federation: this pod owns stored videos and sends their representations
\* to a remote pod, which mirrors them.

\* Images ffmpeg may have written as thumbnails.
ThumbnailContents == { Screenshot, << 0, 127, 128, 255 >>, << 10, 200 >> }

\* The id the remote pod gives to its mirror of the video of that remoteId:
\* a UUID of its own.
MirrorId(remoteId) == remoteId + 2 * MaxVideos

InitFederation ==
    /\ videos \in [VideoIds ->
          { Saved([ phase |-> "creating", id |-> id, remoteId |-> NULL,
                    extname |-> ext, name |-> "Demo", infoHash |-> NoHash ]
                  @@ Details) : id \in VideoIds, ext \in UploadExtnames }]
    /\ \A v \in VideoIds : videos[v].id = v
    /\ rows = VideoIds
    /\ createTasks = [v \in VideoIds |-> [t \in CreateTaskNames |-> "done"]]
    /\ createResult = [v \in VideoIds |-> "ok"]
    /\ destroyTasks = [v \in VideoIds |-> [t \in DestroyTaskNames |-> "idle"]]
    /\ destroyResult = [v \in VideoIds |-> "none"]
    /\ videosDir = {getVideoFilename(videos[v]) : v \in VideoIds}
    /\ torrentsDir = { [ name |-> getTorrentName(videos[v]),
                         infoHash |-> EncoderHash(v) ] : v \in VideoIds }
    /\ thumbnailsDir = {getThumbnailName(videos[v]) : v \in VideoIds}
    /\ previewsDir = {getPreviewName(videos[v]) : v \in VideoIds}
    /\ peerDirectory = << >>
    /\ lastNames = NoNames
    /\ thumbnailBytes \in [thumbnailsDir -> ThumbnailContents]
    /\ remotePod = NoRemotePod
    /\ lastResult = NoResult

\* The remote pod receives an add representation: Video.build of it with
\* an id of its own, generateThumbnailFromData, then save().
MirrorAdd(pod, representation, writeErr) ==
    LET built == [ phase |-> "creating",
                   id |-> MirrorId(representation.remoteId),
                   remoteId |-> representation.remoteId,
                   extname |-> representation.extname,
                   name |-> representation.name,
                   infoHash |-> representation.infoHash,
                   description |-> representation.description,
                   duration |-> representation.duration,
                   author |-> representation.author,
                   tags |-> representation.tags,
                   createdAt |-> representation.createdAt,
                   updatedAt |-> representation.updatedAt ]
        video == Saved(built)
    IN  IF writeErr THEN pod
        ELSE [ videos |-> IF video.phase = "persisted"
                          THEN pod.videos \cup {video} ELSE pod.videos,
               thumbnails |->
                   generateThumbnailFromData(built,
                       representation.thumbnailData, pod.thumbnails) ]

\* The remote pod receives an update representation: the mirror of that
\* remoteId takes the fields of the representation, then save().
MirrorUpdate(pod, representation) ==
    [ pod EXCEPT !.videos =
        { IF video.remoteId # representation.remoteId THEN video
          ELSE LET changed ==
                     [video EXCEPT !.name = representation.name,
                                   !.description = representation.description,
                                   !.infoHash = representation.infoHash,
                                   !.duration = representation.duration,
                                   !.tags = representation.tags,
                                   !.createdAt = representation.createdAt,
                                   !.updatedAt = representation.updatedAt,
                                   !.extname = representation.extname]
               IN  IF Saved(changed).phase = "persisted" THEN changed
                   ELSE video
          : video \in pod.videos } ]

\* video.toAddRemoteJSON(callback) on a stored owned video not yet sent;
\* fs.readFile may fail; on success the representation goes to the remote
\* pod.
SendAdd(v) ==
    /\ videos[v].phase = "persisted"
    /\ isOwned(videos[v])
    /\ \A video \in remotePod.videos : video.remoteId # videos[v].id
    /\ \E readErr \in BOOLEAN, writeErr \in BOOLEAN :
         LET result == toAddRemoteJSON(videos[v],
                           IF readErr THEN NoFiles ELSE thumbnailBytes)
         IN  /\ lastResult' = [ op |-> "toAddRemoteJSON",
                                video |-> videos[v],
                                readErr |-> readErr,
                                result |-> result ]
             /\ remotePod' = IF result.err THEN remotePod
                             ELSE MirrorAdd(remotePod, result, writeErr)
    /\ UNCHANGED << videos, rows, createTasks, createResult, destroyTasks,
                    destroyResult, videosDir, torrentsDir, thumbnailsDir,
                    previewsDir, peerDirectory, lastNames, thumbnailBytes >>

\* video.toUpdateRemoteJSON() on a stored owned video, sent to the remote
\* pod.
SendUpdate(v) ==
    /\ videos[v].phase = "persisted"
    /\ isOwned(videos[v])
    /\ LET result == toUpdateRemoteJSON(videos[v])
       IN  /\ lastResult' = [ op |-> "toUpdateRemoteJSON",
                              video |-> videos[v],
                              result |-> result ]
           /\ remotePod' = MirrorUpdate(remotePod, result)
    /\ UNCHANGED << videos, rows, createTasks, createResult, destroyTasks,
                    destroyResult, videosDir, torrentsDir, thumbnailsDir,
                    previewsDir, peerDirectory, lastNames, thumbnailBytes >>

NextFederation ==
    \E v \in VideoIds :
        \/ SendAdd(v)
        \/ SendUpdate(v)
        \/ UpdateVideo(v)

SpecFederation == InitFederation /\ [][NextFederation]_vars

\* The fields both federation representations have.
SharedFields == {"name", "description", "infoHash", "remoteId", "author",
                 "duration", "tags", "createdAt", "updatedAt", "extname"}

CarriesVideo(representation, video) ==
    /\ representation.remoteId = video.id
    /\ representation.name = video.name
    /\ representation.description = video.description
    /\ representation.infoHash = video.infoHash
    /\ representation.author = video.author
    /\ representation.duration = video.duration
    /\ representation.tags = video.tags
    /\ representation.createdAt = video.createdAt
    /\ representation.updatedAt = video.updatedAt
    /\ representation.extname = video.extname

\* C14: the add and the update representation of a video carry its own id
\* as remoteId and the same name, description, infoHash, author, duration,
\* tags, timestamps and extname; the add representation also carries the
\* bytes of the thumbnail and the update representation no thumbnail; when
\* the thumbnail cannot be read, toAddRemoteJSON gives the error and no
\* representation.
C14_Representations ==
    /\ lastResult.op = "toAddRemoteJSON" =>
          LET video == lastResult.video
              result == lastResult.result
          IN  /\ result.err <=> lastResult.readErr
              /\ result.err => DOMAIN result = {"err"}
              /\ ~ result.err =>
                    /\ DOMAIN result = SharedFields \cup {"err", "thumbnailData"}
                    /\ CarriesVideo(result, video)
                    /\ \A f \in SharedFields :
                          result[f] = toUpdateRemoteJSON(video)[f]
                    /\ bufferFromBinary(result.thumbnailData)
                          = thumbnailBytes[getThumbnailName(video)]
    /\ lastResult.op = "toUpdateRemoteJSON" =>
          /\ DOMAIN lastResult.result = SharedFields
          /\ CarriesVideo(lastResult.result, lastResult.video)

\* C14 witness: an add representation with its thumbnail has just been made
\* while the mirror of another video has taken an update representation.
C14_Witness ==
    /\ lastResult.op = "toAddRemoteJSON"
    /\ ~ lastResult.result.err
    /\ Len(lastResult.result.thumbnailData) > 0
    /\ \E video \in remotePod.videos :
          /\ video.remoteId # lastResult.video.id
          /\ video.name \in NewNames

----------------------------------------------------------------------------
\* Search: searchAndPopulateAuthorAndPodAndTags builds one query from the
\* field and the value; findAndCountAll runs it on the stored videos.  A
\* run is one call: the value, the field and the database are drawn at the
\* start.

\* A text is the sequence of its characters; "_" and "%" are the wildcards
\* of LIKE.
Chars == {"a", "b", "_"}

\* Longest search value.
MaxValueLen == 2

TextValues == UNION { [1..n -> Chars] : n \in 0..MaxValueLen }

\* Magnet URIs given as search values: xt, dn and tr.
MagnetValues == [ xt : {EncoderHash(v) : v \in VideoIds},
                  dn : {"Demo", "Other"},
                  tr : {"self", "pod"} ]

SearchFields == {"magnetUri", "tags", "host", "author", "name",
                 "description", "category"}

\* The columns of the Videos table a text filter can be run on.
TextColumns == {"name", "description"}

\* Hosts of the pods of the authors; a local author has no pod.
PodHosts == { << "a" >>, << "a", "b" >>, << "b", "b" >> }

Pods == [ present : {TRUE}, host : PodHosts ]
           \cup { [ present |-> FALSE, host |-> << >> ] }

\* The stored videos with their author, its pod and their tags.
StoredVideo(id, pod) ==
    [ id |-> id,
      name |-> IF id % 2 = 1 THEN << "a", "b" >> ELSE << "b" >>,
      description |-> << "b", "a" >>,
      infoHash |-> EncoderHash(id),
      author |-> [ name |-> IF id % 2 = 1 THEN << "a" >> ELSE << "b", "a" >>,
                   pod |-> pod ],
      tags |-> IF id % 2 = 1 THEN { << "a" >>, << "b", "b" >> } ELSE {} ]

StoredTables ==
    { { StoredVideo(id, pods[id]) : id \in VideoIds } :
        pods \in [VideoIds -> Pods] }

\* magnetUtil.decode(value)
magnetDecode(value) ==
    [ infoHash |-> value.xt, name |-> value.dn, announce |-> value.tr ]

\* '%' + value + '%'
LikePattern(value) == << "%" >> \o value \o << "%" >>

\* Variant: the host branch does not end the chain of branches.
searchHostFallsThrough(value, field) ==
    IF field = "magnetUri"
    THEN [ where |-> { [ column |-> "infoHash", op |-> "eq",
                         arg |-> magnetDecode(value).infoHash ] },
           authorWhere |-> {}, podWhere |-> {}, podRequired |-> FALSE ]
    ELSE IF field = "tags"
    THEN [ where |-> { [ column |-> "id", op |-> "inTagsLike",
                         arg |-> LikePattern(value) ] },
           authorWhere |-> {}, podWhere |-> {}, podRequired |-> FALSE ]
    ELSE IF field = "author"
    THEN [ where |-> {},
           authorWhere |-> { [ column |-> "name", op |-> "like",
                               arg |-> LikePattern(value) ] },
           podWhere |-> {}, podRequired |-> FALSE ]
    ELSE [ where |-> { [ column |-> field, op |-> "like",
                         arg |-> LikePattern(value) ] },
           authorWhere |-> {},
           podWhere |-> IF field = "host"
                        THEN { [ column |-> "host", op |-> "like",
                                 arg |-> LikePattern(value) ] }
                        ELSE {},
           podRequired |-> field = "host" ]

\* The query searchAndPopulateAuthorAndPodAndTags hands to findAndCountAll:
\* query.where, authorInclude.where, podInclude.where, podInclude.required.
searchAndPopulateAuthorAndPodAndTags(value, field) ==
    IF field = "magnetUri"
    THEN [ where |-> { [ column |-> "infoHash", op |-> "eq",
                         arg |-> magnetDecode(value).infoHash ] },
           authorWhere |-> {}, podWhere |-> {}, podRequired |-> FALSE ]
    ELSE IF field = "tags"
    THEN [ where |-> { [ column |-> "id", op |-> "inTagsLike",
                         arg |-> LikePattern(value) ] },
           authorWhere |-> {}, podWhere |-> {}, podRequired |-> FALSE ]
    ELSE IF field = "host"
    THEN [ where |-> {}, authorWhere |-> {},
           podWhere |-> { [ column |-> "host", op |-> "like",
                            arg |-> LikePattern(value) ] },
           podRequired |-> TRUE ]
    ELSE IF field = "author"
    THEN [ where |-> {},
           authorWhere |-> { [ column |-> "name", op |-> "like",
                               arg |-> LikePattern(value) ] },
           podWhere |-> {}, podRequired |-> FALSE ]
    ELSE [ where |-> { [ column |-> field, op |-> "like",
                         arg |-> LikePattern(value) ] },
           authorWhere |-> {}, podWhere |-> {}, podRequired |-> FALSE ]

\* text LIKE pattern: "%" stands for any characters, "_" for any one.
RECURSIVE Like(_, _)
Like(text, pattern) ==
    IF pattern = << >> THEN text = << >>
    ELSE IF Head(pattern) = "%"
    THEN Like(text, Tail(pattern))
           \/ (text # << >> /\ Like(Tail(text), pattern))
    ELSE /\ text # << >>
         /\ Head(pattern) = "_" \/ Head(pattern) = Head(text)
         /\ Like(Tail(text), Tail(pattern))

\* A condition of query.where on a stored video.
Satisfies(video, condition) ==
    IF condition.op = "eq" THEN video[condition.column] = condition.arg
    ELSE IF condition.op = "inTagsLike"
    THEN \E tag \in video.tags : Like(tag, condition.arg)
    ELSE Like(video[condition.column], condition.arg)

\* this.findAndCountAll(query): a filter on a column the table does not
\* have is an error of the database; an include with a where or with
\* required: true is an inner join.
findAndCountAll(query, stored) ==
    IF \E c \in query.where :
          c.op = "like" /\ c.column \notin TextColumns
    THEN [ err |-> TRUE, rows |-> {} ]
    ELSE [ err |-> FALSE,
           rows |-> { video \in stored :
               /\ \A c \in query.where : Satisfies(video, c)
               /\ \A c \in query.authorWhere :
                     Like(video.author.name, c.arg)
               /\ query.podRequired =>
                     /\ video.author.pod.present
                     /\ \A c \in query.podWhere :
                           Like(video.author.pod.host, c.arg) } ]

InitSearch ==
    /\ videos = [v \in VideoIds |-> Unbuilt]
    /\ rows = {}
    /\ createTasks = [v \in VideoIds |-> [t \in CreateTaskNames |-> "idle"]]
    /\ createResult = [v \in VideoIds |-> "none"]
    /\ destroyTasks = [v \in VideoIds |-> [t \in DestroyTaskNames |-> "idle"]]
    /\ destroyResult = [v \in VideoIds |-> "none"]
    /\ videosDir = {}
    /\ torrentsDir = {}
    /\ thumbnailsDir = {}
    /\ previewsDir = {}
    /\ peerDirectory = << >>
    /\ lastNames = NoNames
    /\ thumbnailBytes = NoFiles
    /\ remotePod = NoRemotePod
    /\ \E stored \in StoredTables :
         \/ \E value \in MagnetValues :
               lastResult = [ op |-> "call", field |-> "magnetUri",
                              value |-> value, stored |-> stored ]
         \/ \E value \in TextValues, field \in SearchFields \ {"magnetUri"} :
               lastResult = [ op |-> "call", field |-> field,
                              value |-> value, stored |-> stored ]

\* Video.searchAndPopulateAuthorAndPodAndTags(value, field, ...) on a
\* database holding the stored videos.
Search ==
    LET value == lastResult.value
        field == lastResult.field
        stored == lastResult.stored
        query == searchAndPopulateAuthorAndPodAndTags(value, field)
    IN  /\ lastResult.op = "call"
        /\ lastResult' = [ op |-> "search", field |-> field, value |-> value,
                           stored |-> stored, query |-> query,
                           result |-> findAndCountAll(query, stored) ]
        /\ UNCHANGED << videos, rows, createTasks, createResult,
                        destroyTasks, destroyResult, videosDir, torrentsDir,
                        thumbnailsDir, previewsDir, peerDirectory, lastNames,
                        thumbnailBytes, remotePod >>

NextSearch == Search

SpecSearch == InitSearch /\ [][NextSearch]_vars

\* value is a substring of text.
Contains(text, value) ==
    \E i \in 0..(Len(text) - Len(value)) :
        SubSeq(text, i + 1, i + Len(value)) = value

\* C15: a search on field 'host' returns exactly the stored videos whose
\* author has a pod with a host containing the value as a substring, so
\* never a video whose author has no pod.
C15_HostSearch ==
    (lastResult.op = "search" /\ lastResult.field = "host") =>
        /\ ~ lastResult.result.err
        /\ lastResult.result.rows =
              { video \in lastResult.stored :
                  /\ video.author.pod.present
                  /\ Contains(video.author.pod.host, lastResult.value) }

\* The filters a query carries: those of query.where and of the includes.
Filters(query) ==
    { << "video", c >> : c \in query.where }
      \cup { << "author", c >> : c \in query.authorWhere }
      \cup { << "pod", c >> : c \in query.podWhere }

LikeFilter(column, value) ==
    [ column |-> column, op |-> "like", arg |-> LikePattern(value) ]

\* C16: every search builds a query with exactly one filter, the one of the
\* branch of its field: 'magnetUri' the equality of infoHash with the hash
\* decoded from the value, whatever the name and the tracker of the URI;
\* 'tags' the tag subquery; 'host' the filter on the host of a required
\* pod; 'author' the filter on the name of the author; any other field,
\* a column of the table or not, the LIKE %value% filter on that field,
\* and building it raises no error.
C16_OneBranch ==
    lastResult.op = "search" =>
        LET query == lastResult.query
            field == lastResult.field
            value == lastResult.value
        IN  /\ Cardinality(Filters(query)) = 1
            /\ query.podRequired <=> field = "host"
            /\ field = "magnetUri" =>
                  /\ Filters(query) =
                        { << "video", [ column |-> "infoHash", op |-> "eq",
                                        arg |-> value.xt ] >> }
                  /\ \A other \in MagnetValues :
                        other.xt = value.xt =>
                          /\ searchAndPopulateAuthorAndPodAndTags(other, field)
                                = query
                          /\ findAndCountAll(
                                searchAndPopulateAuthorAndPodAndTags(other,
                                    field), lastResult.stored)
                                = lastResult.result
                  /\ lastResult.result.rows =
                        { video \in lastResult.stored :
                            video.infoHash = value.xt }
            /\ field = "tags" =>
                  Filters(query) =
                      { << "video", [ column |-> "id", op |-> "inTagsLike",
                                      arg |-> LikePattern(value) ] >> }
            /\ field = "host" =>
                  Filters(query) = { << "pod", LikeFilter("host", value) >> }
            /\ field = "author" =>
                  Filters(query) = { << "author", LikeFilter("name", value) >> }
            /\ field \notin {"magnetUri", "tags", "host", "author"} =>
                  Filters(query) = { << "video", LikeFilter(field, value) >> }

\* C16 witness: a search on a field that is no column of the table has been
\* built as a LIKE filter on that field.
C16_Witness ==
    /\ lastResult.op = "search"
    /\ lastResult.field \notin TextColumns
                             \cup {"magnetUri", "tags", "host", "author"}
    /\ Len(lastResult.value) > 0
    /\ \E c \in lastResult.query.where : c.column = lastResult.field

----------------------------------------------------------------------------
\* The join of the task groups

\* The tasks of a hook that have been started and have not called back.
CreateTasksUnderWay(v) ==
    {t \in CreateTaskNames : createTasks[v][t] \notin {"idle", "done", "failed"}}

DestroyTasksUnderWay(v) ==
    {t \in DestroyTaskNames : destroyTasks[v][t] \notin {"idle", "done", "failed"}}

\* C17: the completion callback of beforeCreate and of afterDestroy is
\* invoked only after every task the hook launched has finished, whatever
\* the interleaving and the failures.
C17_JoinedBeforeCompletion ==
    \A v \in VideoIds :
        /\ createResult[v] \in {"ok", "err"} => CreateTasksUnderWay(v) = {}
        /\ destroyResult[v] \in {"ok", "err"} => DestroyTasksUnderWay(v) = {}

\* C17 amended: a hook reports success only after every task it launched
\* has finished, and finished without error; it reports an error only when
\* a task it launched has failed, the other tasks being finished or not.
C17_JoinedOnSuccess ==
    \A v \in VideoIds :
        /\ createResult[v] = "ok" =>
              \A t \in beforeCreateTasks(videos[v]) : createTasks[v][t] = "done"
        /\ destroyResult[v] = "ok" =>
              \A t \in afterDestroyTasks(videos[v]) : destroyTasks[v][t] = "done"
        /\ createResult[v] = "err" =>
              \E t \in CreateTaskNames : createTasks[v][t] = "failed"
        /\ destroyResult[v] = "err" =>
              \E t \in DestroyTaskNames : destroyTasks[v][t] = "failed"

\* C17 witness: one creation has succeeded with its three tasks done, and
\* the destroy of another video has reported an error while a removal is
\* still under way.
C17_Witness ==
    \E v, w \in VideoIds :
        /\ Owned(v) /\ createResult[v] = "ok"
        /\ \A t \in CreateTaskNames : createTasks[v][t] = "done"
        /\ Owned(w) /\ destroyResult[w] = "err"
        /\ DestroyTasksUnderWay(w) # {}

\* C18: the creation hook reports the error at the first task failure,
\* whatever the sibling tasks are doing, and reports once: a result is
\* never replaced, so a task finishing or failing later neither completes
\* the hook again nor turns the error into a success, and the row of a
\* failed creation is never inserted.
C18_FailFastOnce ==
    /\ [][\A v \in VideoIds :
            /\ (createResult[v] = "pending"
                  /\ \E t \in CreateTaskNames :
                        /\ createTasks[v][t] # "failed"
                        /\ createTasks'[v][t] = "failed") =>
                  createResult'[v] = "err"
            /\ createResult[v] \in {"ok", "err"} =>
                  createResult'[v] = createResult[v]
            /\ createResult[v] = "err" =>
                  /\ v \notin rows'
                  /\ videos'[v].phase = "failed"]_vars
    /\ [](\A v \in VideoIds : createResult[v] = "err" => v \notin rows)

\* C18 witness: a creation that has failed, two of its tasks having failed
\* (the second after the error was reported) and the third being done.
C18_Witness ==
    \E v \in VideoIds :
        /\ createResult[v] = "err"
        /\ Cardinality({t \in CreateTaskNames : createTasks[v][t] = "failed"}) = 2
        /\ Cardinality({t \in CreateTaskNames : createTasks[v][t] = "done"}) = 1
        /\ videos[v].phase = "failed"

----------------------------------------------------------------------------
\* Owner and mirror

\* The mirrors the remote pod holds of video v of this pod.
MirrorsOf(v) == {video \in remotePod.videos : video.remoteId = videos[v].id}

\* C19: a mirror made from the add representation of an owned video has the
\* video file name, the torrent name and the infoHash of the owned video,
\* and the torrent and web-seed paths of the magnet URI of the mirror name
\* files the owner wrote; before and after update representations.
C19_MirrorAgreesWithOwner ==
    \A v \in VideoIds :
        \A mirror \in MirrorsOf(v) :
            /\ getVideoFilename(mirror) = getVideoFilename(videos[v])
            /\ getTorrentName(mirror) = getTorrentName(videos[v])
            /\ mirror.infoHash = videos[v].infoHash
            /\ generateMagnetUri(mirror).xs[2] \in TorrentFiles
            /\ generateMagnetUri(mirror).urlList[1][2] \in videosDir

\* C20: the thumbnail a mirror was given holds the bytes of the thumbnail
\* of the owner, whatever they are, and is the file named after the id the
\* mirroring pod gave the mirror, not after the remote id.
C20_ThumbnailBinarySafe ==
    \A v \in VideoIds :
        \A mirror \in MirrorsOf(v) :
            /\ getThumbnailName(mirror) = << mirror.id, ".jpg" >>
            /\ mirror.id # mirror.remoteId
            /\ getThumbnailName(mirror) \in DOMAIN remotePod.thumbnails
            /\ remotePod.thumbnails[getThumbnailName(mirror)]
                  = thumbnailBytes[getThumbnailName(videos[v])]
            /\ << mirror.remoteId, ".jpg" >> \notin DOMAIN remotePod.thumbnails

\* C20 witness: a mirror whose thumbnail holds bytes below and above 128,
\* the thumbnail of the owner being the same.
C20_Witness ==
    \E v \in VideoIds :
        \E mirror \in MirrorsOf(v) :
            LET bytes == remotePod.thumbnails[getThumbnailName(mirror)]
            IN  /\ \E i \in 1..Len(bytes) : bytes[i] >= 128
                /\ \E i \in 1..Len(bytes) : bytes[i] = 0
                /\ bytes = thumbnailBytes[getThumbnailName(videos[v])]
====
